---- MODULE Spec2Model ----
(***************************************************************************)
(* SohriService: per-session EPD segmentation state machine, sequenced     *)
(* STT work queue, periodic batch dispatcher, TURN_END drain and in-order  *)
(* delivery (sohri.service.ts, RingBuffer + batch + reassembler variant).  *)
(*                                                                         *)
(* One action is one run-to-completion step of the Node.js event loop: a   *)
(* handler runs from the callback that wakes it up to its next await on a  *)
(* timer or on the STT HTTP call.                                          *)
(***************************************************************************)
EXTENDS Integers, Sequences, FiniteSets, TLC

\* ---------------------------------------------------------------- bounds
\* session ids handed out by uuidv4(); each is used for one turn
Sessions == {"s1", "s2"}
\* EPD events handled per session
MaxChunks == 6
\* work items the EPD handler may enqueue per session
MaxSeq == 3
\* dispatcher batches awaiting their STT response at the same time
MaxInFlight == 2
\* length of a run of EPD_WAITING events that opens a long silent turn, and
\* the EPD events handled after such a run
SilentRun == 48
MaxTail == 4
\* the sessions of the single-session specification
Solo == {"s1"}
\* audio chunks appended per session
MaxAppend == 1
\* chunks and EPD events received for an unknown session id, of each kind
MaxStray == 1
\* EPD events handled per session where the audio path is explored
IoChunks == 3
\* EPD events handled per session where two sessions run side by side
TwoChunks == 2

\* blocks appended to a BufferManager explored on its own
MaxBlocks == 3

\* WebSocket objects created by a WebSocketService explored on its own
MaxSockets == 3

\* audio chunks and EPD events of the session whose EPD socket opens and
\* closes while it streams
MaxSend == 2
SendChunks == 2

\* length in bytes of the PCM buffers given to pcmToWav
MaxPcm == 2

\* EPD events of the session whose segmentation is explored on its own
FsmChunks == 12

\* ------------------------------------------------------- program constants
EPD_WAITING == 0
EPD_SPEECH == 1
EPD_PAUSE == 2
EPD_END == 3
EPD_TIMEOUT == 4
EPD_MAX_TIMEOUT == 6
EPD_NONE == 7
StatusCodes ==
  {EPD_WAITING, EPD_SPEECH, EPD_PAUSE, EPD_END, EPD_TIMEOUT, EPD_MAX_TIMEOUT, EPD_NONE}

\* pre-roll, in-speech partial cadence, long-pause threshold, batch size
PRE == 4
STEP == 5
LONG == 50
BatchSize == 16
\* BufferManager: samples per chunk, bytes per sample
chunkSize == 1600
SampleBytes == 2
\* pcmToWav: size of the RIFF header
headerSize == 44

VARIABLES
  clientMap,       \* set of session ids with a client socket
  bufferMap,       \* session id -> chunks appended to its BufferManager
  stateMap,        \* session id -> StreamState
  sessionSeq,      \* session id -> next sequence to issue
  expectedSeq,     \* session id -> next sequence eligible for delivery
  pendingResults,  \* session id -> (sequence -> [result, end])
  sttQueue,        \* global queue of SttRequest
  inflight,        \* dispatcher batches awaiting sendBatchSpeechResponse
  pc,              \* session id -> TURN_END handler -> its position
  delivered,       \* session id -> records pushed on deliverySubject, in order
  deliveryEnds,    \* session id -> number of deliveryEnd emissions
  issued,          \* session id -> work items enqueued, in sequence order
  speechSeen,      \* session id -> an EPD_SPEECH event has been handled
  arrivals,        \* session id -> sequences put into pendingResults, in order
  started,         \* session ids already handed out by TURN_START
  wsOpen,          \* the EPD websocket is in readyState OPEN
  connected,       \* the client socket is connected to the gateway
  epdFrames,       \* session id -> frames sent to the EPD engine
  strayChunks,     \* audio chunks received for an unknown session id
  strayEpd,        \* EPD events received for an unknown session id
  epdSeen,         \* session id -> EPD events handled for the known session
  issuedSeq,       \* session id -> sequences given out by enqueueStt, in order
  handed,          \* session id -> sequences handed to sendBatchSpeechResponse
  returned,        \* session id -> results returned by sendBatchSpeechResponse
  scenario,        \* name of the scripted EPD status sequence, "none" if free
  buffer,          \* BufferManager.buffer, one element per chunk-sized block
  baseChunk,       \* BufferManager.baseChunk
  appended,        \* blocks appended to the BufferManager so far
  readResult,      \* what the last readRange call was given and returned
  sockets,         \* WebSocketService: readyState of every WebSocket created
  ws,              \* WebSocketService.ws: index into sockets, 0 if undefined
  reconnectTimeout, \* "unset", "armed" (timer pending) or "stale" (handle kept)
  heartbeatInterval, \* the heartbeat interval timer is set
  isManualClose,   \* WebSocketService.isManualClose
  wavInput,        \* the arguments of a pcmToWav call
  wavOutput,       \* what the pcmToWav call returned or threw
  leftovers        \* session id -> leftover finals enqueued by TURN_END handlers

vars ==
  <<clientMap, bufferMap, stateMap, sessionSeq, expectedSeq, pendingResults,
    sttQueue, inflight, pc, delivered, deliveryEnds, issued, speechSeen, arrivals,
    started, wsOpen, connected, epdFrames, strayChunks, strayEpd, epdSeen,
    issuedSeq, handed, returned, scenario, buffer, baseChunk, appended,
    readResult, sockets, ws, reconnectTimeout, heartbeatInterval, isManualClose,
    wavInput, wavOutput, leftovers>>

\* a BufferManager on its own
bufferVars == <<buffer, baseChunk, appended, readResult>>

\* a WebSocketService on its own
socketVars == <<sockets, ws, reconnectTimeout, heartbeatInterval, isManualClose>>

\* what the handlers of SohriService never touch: the script of the EPD
\* engine and the components explored on their own
unitVars == <<scenario, bufferVars, socketVars, wavInput, wavOutput>>

\* what only the leftover step of a TURN_END handler touches
restVars == <<unitVars, leftovers>>

\* the state of SohriService, its gateway and its EPD socket
serviceVars ==
  <<clientMap, bufferMap, stateMap, sessionSeq, expectedSeq, pendingResults,
    sttQueue, inflight, pc, delivered, deliveryEnds, issued, speechSeen, arrivals,
    started, wsOpen, connected, epdFrames, strayChunks, strayEpd, epdSeen,
    issuedSeq, handed, returned, leftovers>>

\* the gateway, the EPD socket and what was received for unknown sessions
ioVars == <<wsOpen, connected, epdFrames, strayChunks, strayEpd>>

\* ------------------------------------------------------------- map helpers
MapSet(m, k, v) == [x \in (DOMAIN m) \cup {k} |-> IF x = k THEN v ELSE m[x]]
MapDelete(m, k) == [x \in (DOMAIN m) \ {k} |-> m[x]]
EmptyMap == [x \in {} |-> 0]

Min(a, b) == IF a <= b THEN a ELSE b

\* ------------------------------------------------------------ SegmentationFSM
InitialState ==
  [start |-> 0, end |-> 0, flag |-> FALSE, recognized |-> FALSE,
   lastChunk |-> 0, nChunks |-> 0]

\* mutant: the pre-roll is taken without the clamp at chunk 0
PreRollStartUnclamped(n) == n - PRE

\* mutant: the utterance starts at the chunk of the first EPD_SPEECH
PreRollStartNone(n) == n

PreRollStart(n) == IF n >= PRE THEN n - PRE ELSE 0

\* mutant: the reset also restarts the session clock
ResetStateZeroClock(prev) ==
  [start |-> 0, end |-> 0, flag |-> FALSE, recognized |-> FALSE,
   lastChunk |-> 0, nChunks |-> 0]

ResetState(prev) ==
  [start |-> prev.end, end |-> prev.end, flag |-> FALSE, recognized |-> FALSE,
   lastChunk |-> prev.nChunks, nChunks |-> prev.nChunks]

WorkItem(st, final) == [start |-> st.start, end |-> st.end, final |-> final]

\* mutant: an open utterance enqueues a partial at every EPD_SPEECH
OnSpeechEveryChunk(st) ==
  IF ~st.flag
  THEN [state |-> [st EXCEPT !.flag = TRUE, !.start = PreRollStart(st.nChunks),
                             !.lastChunk = st.nChunks, !.recognized = FALSE],
        emit |-> <<>>]
  ELSE LET s1 == [st EXCEPT !.end = st.nChunks]
       IN IF s1.end - s1.start > 1
          THEN [state |-> [s1 EXCEPT !.lastChunk = st.nChunks,
                                     !.recognized = FALSE],
                emit |-> <<WorkItem(s1, 0)>>]
          ELSE [state |-> [s1 EXCEPT !.recognized = FALSE], emit |-> <<>>]

\* EPD_SPEECH branch: [state, emit]
OnSpeech(st) ==
  IF ~st.flag
  THEN [state |-> [st EXCEPT !.flag = TRUE, !.start = PreRollStart(st.nChunks),
                             !.lastChunk = st.nChunks, !.recognized = FALSE],
        emit |-> <<>>]
  ELSE IF st.nChunks - st.lastChunk >= STEP
       THEN LET s1 == [st EXCEPT !.end = st.nChunks]
            IN IF s1.end - s1.start > 1
               THEN [state |-> [s1 EXCEPT !.lastChunk = st.nChunks,
                                          !.recognized = FALSE],
                     emit |-> <<WorkItem(s1, 0)>>]
               ELSE [state |-> [s1 EXCEPT !.recognized = FALSE], emit |-> <<>>]
       ELSE [state |-> [st EXCEPT !.recognized = FALSE], emit |-> <<>>]

\* mutant: the pause branches enqueue without the end - start > 1 guard
OnPauseNoGuard(st) ==
  IF st.nChunks - st.start > LONG
  THEN LET s1 == [st EXCEPT !.end = st.nChunks]
       IN [state |-> ResetState(s1), emit |-> <<WorkItem(s1, 1)>>]
  ELSE LET s1 == [st EXCEPT !.end = st.nChunks, !.lastChunk = st.nChunks]
       IN [state |-> [s1 EXCEPT !.recognized = TRUE], emit |-> <<WorkItem(s1, 0)>>]

\* mutant: the short pause does not mark the utterance as recognized
OnPauseNotRecognized(st) ==
  IF st.nChunks - st.start > LONG
  THEN LET s1 == [st EXCEPT !.end = st.nChunks]
       IN IF s1.end - s1.start > 1
          THEN [state |-> ResetState(s1), emit |-> <<WorkItem(s1, 1)>>]
          ELSE [state |-> s1, emit |-> <<>>]
  ELSE LET s1 == [st EXCEPT !.end = st.nChunks, !.lastChunk = st.nChunks]
       IN IF s1.end - s1.start > 1
          THEN [state |-> s1, emit |-> <<WorkItem(s1, 0)>>]
          ELSE [state |-> s1, emit |-> <<>>]

\* EPD_PAUSE && !recognized branch
OnPause(st) ==
  IF st.nChunks - st.start > LONG
  THEN LET s1 == [st EXCEPT !.end = st.nChunks]
       IN IF s1.end - s1.start > 1
          THEN [state |-> ResetState(s1), emit |-> <<WorkItem(s1, 1)>>]
          ELSE [state |-> s1, emit |-> <<>>]
  ELSE LET s1 == [st EXCEPT !.end = st.nChunks, !.lastChunk = st.nChunks]
       IN IF s1.end - s1.start > 1
          THEN [state |-> [s1 EXCEPT !.recognized = TRUE],
                emit |-> <<WorkItem(s1, 0)>>]
          ELSE [state |-> s1, emit |-> <<>>]

\* EPD_END && flag branch
OnEnd(st) ==
  LET s1 == [st EXCEPT !.end = st.nChunks]
  IN IF s1.end - s1.start > 1
     THEN [state |-> ResetState(s1), emit |-> <<WorkItem(s1, 1)>>]
     ELSE [state |-> s1, emit |-> <<>>]

\* handleEpdMessage on a known session: nChunks++ first, then the rule body
EpdStep(st0, status) ==
  LET st == [st0 EXCEPT !.nChunks = st0.nChunks + 1]
  IN IF status = EPD_SPEECH THEN OnSpeech(st)
     ELSE IF status = EPD_PAUSE /\ ~st.recognized THEN OnPause(st)
     ELSE IF status = EPD_END /\ st.flag THEN OnEnd(st)
     ELSE [state |-> st, emit |-> <<>>]

\* ------------------------------------------------- STT queue
Request(sid, seq, item) ==
  [sequence |-> seq, sessionId |-> sid, start |-> item.start, end |-> item.end,
   final |-> item.final]

\* `${req.sessionId}_${req.state.start}-${req.state.end}`
UtteranceId(req) == <<req.sessionId, req.start, req.end>>

RECURSIVE InsertBySeq(_, _)
InsertBySeq(sorted, r) ==
  IF sorted = <<>> THEN <<r>>
  ELSE IF r.sequence < Head(sorted).sequence THEN <<r>> \o sorted
  ELSE <<Head(sorted)>> \o InsertBySeq(Tail(sorted), r)

\* Array.prototype.sort((a, b) => a.sequence - b.sequence): stable
RECURSIVE SortBySeq(_)
SortBySeq(q) ==
  IF q = <<>> THEN <<>>
  ELSE InsertBySeq(SortBySeq(SubSeq(q, 1, Len(q) - 1)), q[Len(q)])

\* reqMap.get(id): the last request of the batch set under that utterance id
ReqMapGet(batch, id) ==
  LET hits == {i \in 1..Len(batch) : UtteranceId(batch[i]) = id}
  IN batch[CHOOSE i \in hits : \A j \in hits : j <= i]

\* what sendBatchSpeechResponse may return for k inputs: the utterances of
\* any subset of the inputs in any order ([] on a failed request)
Outcomes(k) ==
  {o \in UNION {[1..m -> 1..k] : m \in 0..k} :
     \A i, j \in DOMAIN o : i # j => o[i] # o[j]}

\* ------------------------------------------------- DeliveryReassembler
\* D = [pend, exp, del, arr, ok]: pendingResults, expectedSeq, delivered,
\* the arrivals, and
\* whether the loop over the results ran to its end without a TypeError
RECURSIVE TryDeliverLoop(_, _, _)
TryDeliverLoop(pending, expected, out) ==
  IF expected \in DOMAIN pending
  THEN TryDeliverLoop(MapDelete(pending, expected), expected + 1,
                      Append(out, [seq |-> expected,
                                   result |-> pending[expected].result,
                                   end |-> pending[expected].end]))
  ELSE [pending |-> pending, expected |-> expected, out |-> out]

\* mutant: the delivered entries stay in the pending map and expected is
\* not stored back
TryDeliverKeepPending(D, sid) ==
  IF sid \notin clientMap THEN D
  ELSE LET r == TryDeliverLoop(D.pend[sid], D.exp[sid], <<>>)
       IN [D EXCEPT !.del[sid] = D.del[sid] \o r.out]

\* mutant: the local counter is not stored back into expectedSeq
TryDeliverForgetExpected(D, sid) ==
  IF sid \notin clientMap THEN D
  ELSE LET r == TryDeliverLoop(D.pend[sid], D.exp[sid], <<>>)
       IN [D EXCEPT !.pend[sid] = r.pending, !.del[sid] = D.del[sid] \o r.out]

\* mutant: the skip timer of lines 329-339 enabled, a hole is stepped over
\* as soon as something is pending above it
TryDeliverSkipHole(D, sid) ==
  IF sid \notin clientMap THEN D
  ELSE LET r == TryDeliverLoop(D.pend[sid], D.exp[sid], <<>>)
           r2 == IF DOMAIN r.pending # {}
                 THEN TryDeliverLoop(r.pending, r.expected + 1, r.out)
                 ELSE r
       IN [D EXCEPT !.pend[sid] = r2.pending, !.exp[sid] = r2.expected,
                    !.del[sid] = D.del[sid] \o r2.out]

TryDeliver(D, sid) ==
  IF sid \notin clientMap THEN D
  ELSE LET r == TryDeliverLoop(D.pend[sid], D.exp[sid], <<>>)
       IN [D EXCEPT !.pend[sid] = r.pending, !.exp[sid] = r.expected,
                    !.del[sid] = D.del[sid] \o r.out]

\* mutant: a result is pushed to the client as it arrives
BufferAndTryDeliverOnArrival(D, res) ==
  [D EXCEPT !.del[res.sid] = Append(@, [seq |-> res.seq, result |-> res.result,
                                        end |-> res.end]),
            !.arr[res.sid] = Append(@, res.seq)]

BufferAndTryDeliver(D, res) ==
  TryDeliver([D EXCEPT !.pend[res.sid] =
                MapSet(D.pend[res.sid], res.seq,
                       [result |-> res.result, end |-> res.end]),
              !.arr[res.sid] = Append(@, res.seq)],
             res.sid)

\* the for loop over the results; pendingResults.get(sid)! of an erased
\* session throws and ends the loop
RECURSIVE DeliverAll(_, _)
DeliverAll(D, results) ==
  IF results = <<>> THEN D
  ELSE IF Head(results).sid \notin DOMAIN D.pend THEN [D EXCEPT !.ok = FALSE]
  ELSE DeliverAll(BufferAndTryDeliver(D, Head(results)), Tail(results))

DeliveryState ==
  [pend |-> pendingResults, exp |-> expectedSeq, del |-> delivered,
   arr |-> arrivals, ok |-> TRUE]

\* processBatchSTT step 5: each result is matched to its request through reqMap
BatchResults(batch, order) ==
  [i \in 1..Len(order) |->
     LET id == UtteranceId(batch[order[i]])
         req == ReqMapGet(batch, id)
     IN [sid |-> batch[order[i]].sessionId, seq |-> req.sequence,
         result |-> id, end |-> req.final]]

\* processSttRequestsForSession step 4: results[i] is paired with batch[i]
FlushResults(batch, order) ==
  [i \in 1..Len(order) |->
     [sid |-> batch[order[i]].sessionId, seq |-> batch[i].sequence,
      result |-> UtteranceId(batch[order[i]]), end |-> batch[i].final]]

\* ------------------------------------------------------------- handlers
Handlers == {1, 2}
Idle == [at |-> "idle", last |-> 0, batch |-> <<>>]
At(label) == [at |-> label, last |-> 0, batch |-> <<>>]

ServiceInit ==
  /\ clientMap = {}
  /\ bufferMap = EmptyMap
  /\ stateMap = EmptyMap
  /\ sessionSeq = EmptyMap
  /\ expectedSeq = EmptyMap
  /\ pendingResults = EmptyMap
  /\ sttQueue = <<>>
  /\ inflight = {}
  /\ pc = [s \in Sessions |-> [h \in Handlers |-> Idle]]
  /\ delivered = [s \in Sessions |-> <<>>]
  /\ deliveryEnds = [s \in Sessions |-> 0]
  /\ issued = [s \in Sessions |-> <<>>]
  /\ speechSeen = [s \in Sessions |-> FALSE]
  /\ arrivals = [s \in Sessions |-> <<>>]
  /\ started = {}
  /\ wsOpen = FALSE
  /\ connected = TRUE
  /\ epdFrames = [s \in Sessions |-> 0]
  /\ strayChunks = 0
  /\ strayEpd = 0
  /\ epdSeen = [s \in Sessions |-> 0]
  /\ issuedSeq = [s \in Sessions |-> <<>>]
  /\ handed = [s \in Sessions |-> <<>>]
  /\ returned = [s \in Sessions |-> 0]
  /\ leftovers = [s \in Sessions |-> 0]

\* new BufferManager(): an empty buffer at chunk 0
BufferInit ==
  /\ buffer = <<>>
  /\ baseChunk = 0
  /\ appended = 0
  /\ readResult = [called |-> FALSE]

\* new WebSocketService(): no socket, no timers
SocketInit ==
  /\ sockets = <<>>
  /\ ws = 0
  /\ reconnectTimeout = "unset"
  /\ heartbeatInterval = FALSE
  /\ isManualClose = FALSE

\* no pcmToWav call is under way
NoCall == [called |-> FALSE]

Init ==
  /\ ServiceInit
  /\ scenario = "none"
  /\ BufferInit
  /\ SocketInit
  /\ wavInput = NoCall
  /\ wavOutput = NoCall

\* enqueueStt: the sequence given to the next work item of the session
\* mutant: one counter for all sessions (sttSeqCounter++)
NextSequenceGlobal(s) ==
  Cardinality(UNION {{<<t, i>> : i \in 1..Len(issued[t])} : t \in Sessions})

NextSequence(s) == sessionSeq[s]

\* the sequences of the requests of session s in a batch, in batch order
RECURSIVE SeqsFor(_, _)
SeqsFor(batch, s) ==
  IF batch = <<>> THEN <<>>
  ELSE (IF Head(batch).sessionId = s THEN <<Head(batch).sequence>> ELSE <<>>)
         \o SeqsFor(Tail(batch), s)

\* the batch goes out in one sendBatchSpeechResponse call
HandOver(log, batch) == [s \in Sessions |-> log[s] \o SeqsFor(batch, s)]

\* mutant: slice(0, n) in place of splice(0, n), the queue keeps the batch
SliceRest(q, n) == q

\* the queue after sttQueue.splice(0, n)
SpliceRest(q, n) == SubSeq(q, n + 1, Len(q))

\* the results that came back, counted per session
CountReturned(ret, results) ==
  [s \in Sessions |->
     ret[s] + Cardinality({i \in DOMAIN results : results[i].sid = s})]

\* handleEvent case 10 (TURN_START)
TurnStart(s) ==
  /\ connected
  /\ s \notin started
  /\ started' = started \cup {s}
  /\ clientMap' = clientMap \cup {s}
  /\ stateMap' = MapSet(stateMap, s, InitialState)
  /\ bufferMap' = MapSet(bufferMap, s, 0)
  /\ sessionSeq' = MapSet(sessionSeq, s, 0)
  /\ expectedSeq' = MapSet(expectedSeq, s, 0)
  /\ pendingResults' = MapSet(pendingResults, s, EmptyMap)
  /\ UNCHANGED <<sttQueue, inflight, pc, delivered, arrivals, deliveryEnds, issued,
                 speechSeen, epdSeen, issuedSeq, handed, returned>>
  /\ UNCHANGED ioVars
  /\ UNCHANGED restVars

\* the EPD events of a session are explored for nChunks below MaxChunks and,
\* after a silent run, for MaxTail more events
WithinChunkBound(n) ==
  n < MaxChunks \/ (n >= SilentRun /\ n < SilentRun + MaxTail)

\* handleEpdMessage; an event for an unknown session is dropped
EpdEvent(s, status) ==
  /\ IF s \notin DOMAIN stateMap
     THEN /\ strayEpd' = strayEpd + 1
          /\ UNCHANGED <<stateMap, sessionSeq, sttQueue, issued, speechSeen, epdSeen,
                         issuedSeq>>
     ELSE LET r == EpdStep(stateMap[s], status)
          IN /\ stateMap' = [stateMap EXCEPT ![s] = r.state]
             /\ speechSeen' = [speechSeen EXCEPT ![s] = @ \/ status = EPD_SPEECH]
             /\ epdSeen' = [epdSeen EXCEPT ![s] = @ + 1]
             /\ UNCHANGED strayEpd
             /\ IF r.emit = <<>>
                THEN UNCHANGED <<sessionSeq, sttQueue, issued, issuedSeq>>
                ELSE /\ sessionSeq' = [sessionSeq EXCEPT ![s] = @ + 1]
                     /\ sttQueue' = Append(sttQueue,
                                           Request(s, NextSequence(s), r.emit[1]))
                     /\ issued' = [issued EXCEPT ![s] = Append(@, r.emit[1])]
                     /\ issuedSeq' = [issuedSeq EXCEPT ![s] = Append(@, NextSequence(s))]
  /\ UNCHANGED <<clientMap, bufferMap, expectedSeq, pendingResults, inflight, pc,
                 delivered, arrivals, deliveryEnds, started, handed, returned>>
  /\ UNCHANGED <<wsOpen, connected, epdFrames, strayChunks>>
  /\ UNCHANGED restVars

\* an EPD event of any status, explored within the bounds
HandleEpdMessage(s, status) ==
  /\ IF s \notin DOMAIN stateMap
     THEN strayEpd < MaxStray
     ELSE WithinChunkBound(stateMap[s].nChunks) /\ sessionSeq[s] < MaxSeq
  /\ EpdEvent(s, status)

\* SilentRun EPD_WAITING events of a fresh session handled back to back:
\* each takes the last branch of handleEpdMessage and only counts
LeadingSilence(s) ==
  /\ s \in DOMAIN stateMap
  /\ stateMap[s] = InitialState
  /\ stateMap' = [stateMap EXCEPT ![s].nChunks = SilentRun]
  /\ epdSeen' = [epdSeen EXCEPT ![s] = @ + SilentRun]
  /\ UNCHANGED <<clientMap, bufferMap, sessionSeq, expectedSeq, pendingResults,
                 sttQueue, inflight, pc, delivered, arrivals, deliveryEnds, issued,
                 speechSeen, started, issuedSeq, handed, returned>>
  /\ UNCHANGED ioVars
  /\ UNCHANGED restVars

\* mutant: the frame is sent whatever the readyState
SendMessageAlways(frames, s) == [frames EXCEPT ![s] = @ + 1]

\* wsService.sendMessage: the frame goes out on an open socket only
SendMessage(frames, s) ==
  IF wsOpen THEN [frames EXCEPT ![s] = @ + 1] ELSE frames

\* mutant: no bufferMap.has check, the buffer is created on demand
AppendAndSendUnchecked(s) ==
  [buf |-> MapSet(bufferMap, s,
                  IF s \in DOMAIN bufferMap THEN bufferMap[s] + 1 ELSE 1),
   frames |-> SendMessage(epdFrames, s)]

\* processAudioBuffer: bufferMap and the frames sent to the EPD engine after
\* a chunk for session id s; the ids of known sessions come from uuidv4(),
\* so raw.length is 16 for them
AppendAndSend(s) ==
  IF s \notin DOMAIN bufferMap
  THEN [buf |-> bufferMap, frames |-> epdFrames]
  ELSE [buf |-> [bufferMap EXCEPT ![s] = @ + 1],
        frames |-> SendMessage(epdFrames, s)]

AudioChunk(s) ==
  /\ connected
  /\ IF s \notin DOMAIN bufferMap
     THEN strayChunks' = strayChunks + 1
     ELSE UNCHANGED strayChunks
  /\ bufferMap' = AppendAndSend(s).buf
  /\ epdFrames' = AppendAndSend(s).frames
  /\ UNCHANGED <<clientMap, stateMap, sessionSeq, expectedSeq, pendingResults,
                 sttQueue, inflight, pc, delivered, arrivals, deliveryEnds, issued,
                 speechSeen, started, epdSeen, issuedSeq, handed, returned>>
  /\ UNCHANGED <<wsOpen, connected, strayEpd>>
  /\ UNCHANGED restVars

\* an audio chunk for any session id, explored within the bounds
ProcessAudioBuffer(s) ==
  /\ IF s \notin DOMAIN bufferMap
     THEN strayChunks < MaxStray
     ELSE bufferMap[s] < MaxAppend
  /\ AudioChunk(s)

\* WebSocketService: the 'open' and 'close' events of the EPD socket
OnWsOpen ==
  /\ ~wsOpen
  /\ wsOpen' = TRUE
  /\ UNCHANGED <<clientMap, bufferMap, stateMap, sessionSeq, expectedSeq,
                 pendingResults, sttQueue, inflight, pc, delivered, arrivals,
                 deliveryEnds, issued, speechSeen, started, epdSeen, issuedSeq,
                 handed, returned>>
  /\ UNCHANGED <<connected, epdFrames, strayChunks, strayEpd>>
  /\ UNCHANGED restVars

OnWsClose ==
  /\ wsOpen
  /\ wsOpen' = FALSE
  /\ UNCHANGED <<clientMap, bufferMap, stateMap, sessionSeq, expectedSeq,
                 pendingResults, sttQueue, inflight, pc, delivered, arrivals,
                 deliveryEnds, issued, speechSeen, started, epdSeen, issuedSeq,
                 handed, returned>>
  /\ UNCHANGED <<connected, epdFrames, strayChunks, strayEpd>>
  /\ UNCHANGED restVars

\* the client socket closes: SohriGateway subscribes to 'eventRequest' and
\* 'audioStream' only and has no handleDisconnect, so no handler runs
ClientDisconnect ==
  /\ connected
  /\ connected' = FALSE
  /\ UNCHANGED <<clientMap, bufferMap, stateMap, sessionSeq, expectedSeq,
                 pendingResults, sttQueue, inflight, pc, delivered, arrivals,
                 deliveryEnds, issued, speechSeen, started, epdSeen, issuedSeq,
                 handed, returned>>
  /\ UNCHANGED <<wsOpen, epdFrames, strayChunks, strayEpd>>
  /\ UNCHANGED restVars

\* processBatchSTT up to its await: splice, sort, readRange of every request
ProcessBatchSTT ==
  /\ sttQueue # <<>>
  /\ Cardinality(inflight) < MaxInFlight
  /\ LET n == Min(BatchSize, Len(sttQueue))
         batch == SortBySeq(SubSeq(sttQueue, 1, n))
     IN /\ sttQueue' = SpliceRest(sttQueue, n)
        /\ IF \A i \in 1..n : batch[i].sessionId \in DOMAIN bufferMap
           THEN /\ inflight' = inflight \cup {batch}
                /\ handed' = HandOver(handed, batch)
           ELSE UNCHANGED <<inflight, handed>>
  /\ UNCHANGED <<clientMap, bufferMap, stateMap, sessionSeq, expectedSeq,
                 pendingResults, pc, delivered, arrivals, deliveryEnds, issued, speechSeen,
                 started, epdSeen, issuedSeq, returned>>
  /\ UNCHANGED ioVars
  /\ UNCHANGED restVars

\* processBatchSTT after its await: the results are matched and delivered
ProcessBatchResponse(batch, order) ==
  /\ batch \in inflight
  /\ inflight' = inflight \ {batch}
  /\ LET results == BatchResults(batch, order)
         D == DeliverAll(DeliveryState, results)
     IN /\ pendingResults' = D.pend
        /\ expectedSeq' = D.exp
        /\ delivered' = D.del
        /\ arrivals' = D.arr
        /\ returned' = CountReturned(returned, results)
  /\ UNCHANGED <<clientMap, bufferMap, stateMap, sessionSeq, sttQueue, pc,
                 deliveryEnds, issued, speechSeen, started, epdSeen, issuedSeq, handed>>
  /\ UNCHANGED ioVars
  /\ UNCHANGED restVars

\* --------------------------------------------------------- TURN_END drain
\* mutant: the flush does not filter the queue by session
SessionBatchUnfiltered(q, s) ==
  LET all == SortBySeq(q)
  IN SubSeq(all, 1, Min(BatchSize, Len(all)))

\* the queued requests of one session, ascending by sequence, first 16
SessionBatch(q, s) ==
  LET Mine(r) == r.sessionId = s
      mine == SortBySeq(SelectSeq(q, Mine))
  IN SubSeq(mine, 1, Min(BatchSize, Len(mine)))

\* sttQueue.filter(r => r.sessionId !== sessionId || !batch.includes(r))
WithoutBatch(q, s, batch) ==
  LET Keep(r) == r.sessionId # s \/ \A i \in 1..Len(batch) : batch[i] # r
  IN SelectSeq(q, Keep)

\* deliveryEnd, then cleanupTurn
Finish(s, h, q, D, sm, sq) ==
  /\ deliveryEnds' = [deliveryEnds EXCEPT ![s] = IF s \in clientMap THEN @ + 1 ELSE @]
  /\ clientMap' = clientMap \ {s}
  /\ bufferMap' = MapDelete(bufferMap, s)
  /\ stateMap' = MapDelete(sm, s)
  /\ expectedSeq' = MapDelete(D.exp, s)
  /\ pendingResults' = MapDelete(D.pend, s)
  /\ sessionSeq' = MapDelete(sq, s)
  /\ delivered' = D.del
  /\ arrivals' = D.arr
  /\ sttQueue' = q
  /\ pc' = [pc EXCEPT ![s][h] = At("done")]
  /\ UNCHANGED handed

\* mutant: the handler does not wait for pendingResults to empty
DrainRestNoWait(s, h, q, D, sm, sq) ==
  \E batch \in {SessionBatch(q, s)} :
     IF batch # <<>>
     THEN /\ sttQueue' = WithoutBatch(q, s, batch)
          /\ pc' = [pc EXCEPT ![s][h] =
                      IF s \in DOMAIN bufferMap
                      THEN [at |-> "flush", last |-> 0, batch |-> batch]
                      ELSE At("failed")]
          /\ handed' = IF s \in DOMAIN bufferMap THEN HandOver(handed, batch)
                        ELSE handed
          /\ stateMap' = sm
          /\ sessionSeq' = sq
          /\ expectedSeq' = D.exp
          /\ pendingResults' = D.pend
          /\ delivered' = D.del
          /\ arrivals' = D.arr
          /\ UNCHANGED <<clientMap, bufferMap, deliveryEnds>>
     ELSE Finish(s, h, q, D, sm, sq)

\* the handler from the head of the loop of processSttRequestsForSession to
\* its next await: the STT call of a flush batch, or the 100 ms timer of
\* waitUntilPendingEmpty; or to its end
DrainRest(s, h, q, D, sm, sq) ==
  \E batch \in {SessionBatch(q, s)} :
     IF batch # <<>>
     THEN /\ sttQueue' = WithoutBatch(q, s, batch)
          /\ pc' = [pc EXCEPT ![s][h] =
                      IF s \in DOMAIN bufferMap
                      THEN [at |-> "flush", last |-> 0, batch |-> batch]
                      ELSE At("failed")]
          /\ handed' = IF s \in DOMAIN bufferMap THEN HandOver(handed, batch)
                        ELSE handed
          /\ stateMap' = sm
          /\ sessionSeq' = sq
          /\ expectedSeq' = D.exp
          /\ pendingResults' = D.pend
          /\ delivered' = D.del
          /\ arrivals' = D.arr
          /\ UNCHANGED <<clientMap, bufferMap, deliveryEnds>>
     ELSE IF s \notin DOMAIN D.pend \/ DOMAIN D.pend[s] = {}
     THEN Finish(s, h, q, D, sm, sq)
     ELSE /\ sttQueue' = q
          /\ pc' = [pc EXCEPT ![s][h] = At("waitPending")]
          /\ stateMap' = sm
          /\ sessionSeq' = sq
          /\ expectedSeq' = D.exp
          /\ pendingResults' = D.pend
          /\ delivered' = D.del
          /\ arrivals' = D.arr
          /\ UNCHANGED <<clientMap, bufferMap, deliveryEnds, handed>>

\* handler h erased nothing and delivered nothing: it ended with a TypeError
Fail(s, h) ==
  /\ pc' = [pc EXCEPT ![s][h] = At("failed")]
  /\ UNCHANGED <<clientMap, bufferMap, stateMap, sessionSeq, expectedSeq,
                 pendingResults, sttQueue, delivered, arrivals, deliveryEnds, issued,
                 issuedSeq, handed>>

\* mutant: the leftover final is enqueued without st.end = st.nChunks
LeftoverStaleEnd(s, h) ==
  LET st == stateMap[s]
  IN IF st.nChunks - st.start > 1
     THEN LET item == WorkItem(st, 1)
          IN \E q \in {Append(sttQueue, Request(s, NextSequence(s), item))} :
               /\ issued' = [issued EXCEPT ![s] = Append(@, item)]
               /\ leftovers' = [leftovers EXCEPT ![s] = @ + 1]
               /\ issuedSeq' = [issuedSeq EXCEPT ![s] = Append(@, NextSequence(s))]
               /\ DrainRest(s, h, q, DeliveryState, stateMap,
                            [sessionSeq EXCEPT ![s] = @ + 1])
     ELSE /\ UNCHANGED <<issued, issuedSeq, leftovers>>
          /\ DrainRest(s, h, sttQueue, DeliveryState, stateMap, sessionSeq)

\* handleEvent lines 115-121 (leftover final), then the flush
Leftover(s, h) ==
  LET st == stateMap[s]
  IN IF st.nChunks - st.start > 1
     THEN LET s1 == [st EXCEPT !.end = st.nChunks]
              item == WorkItem(s1, 1)
          IN \E q \in {Append(sttQueue, Request(s, NextSequence(s), item))} :
               /\ issued' = [issued EXCEPT ![s] = Append(@, item)]
               /\ leftovers' = [leftovers EXCEPT ![s] = @ + 1]
               /\ issuedSeq' = [issuedSeq EXCEPT ![s] = Append(@, NextSequence(s))]
               /\ DrainRest(s, h, q, DeliveryState, [stateMap EXCEPT ![s] = s1],
                            [sessionSeq EXCEPT ![s] = @ + 1])
     ELSE /\ UNCHANGED <<issued, issuedSeq, leftovers>>
          /\ DrainRest(s, h, sttQueue, DeliveryState, stateMap, sessionSeq)

\* handleEvent case 13 (TURN_END) up to the first timer of awaitNoMoreEpd
TurnEnd(s, h) ==
  /\ connected
  /\ s \in started
  /\ pc[s][h].at = "idle"
  /\ IF s \in DOMAIN stateMap
     THEN /\ pc' = [pc EXCEPT ![s][h] =
                      [at |-> "awaitEpd", last |-> stateMap[s].nChunks, batch |-> <<>>]]
          /\ UNCHANGED <<clientMap, bufferMap, stateMap, sessionSeq, expectedSeq,
                         pendingResults, sttQueue, delivered, arrivals, deliveryEnds, issued,
                         issuedSeq, handed>>
     ELSE Fail(s, h)
  /\ UNCHANGED <<inflight, speechSeen, started, epdSeen, returned>>
  /\ UNCHANGED ioVars
  /\ UNCHANGED restVars

\* one timer of awaitNoMoreEpd fires; deadline: maxMs has elapsed
AwaitNoMoreEpd(s, h, deadline) ==
  /\ pc[s][h].at = "awaitEpd"
  /\ IF s \notin DOMAIN stateMap
     THEN Fail(s, h) /\ UNCHANGED leftovers
     ELSE IF stateMap[s].nChunks = pc[s][h].last \/ deadline
     THEN Leftover(s, h)
     ELSE /\ pc' = [pc EXCEPT ![s][h].last = stateMap[s].nChunks]
          /\ UNCHANGED <<clientMap, bufferMap, stateMap, sessionSeq, expectedSeq,
                         pendingResults, sttQueue, delivered, arrivals, deliveryEnds, issued,
                         issuedSeq, handed, leftovers>>
  /\ UNCHANGED <<inflight, speechSeen, started, epdSeen, returned>>
  /\ UNCHANGED ioVars
  /\ UNCHANGED unitVars

\* the STT call of a flush batch returns
FlushResponse(s, h, order) ==
  /\ pc[s][h].at = "flush"
  /\ order \in Outcomes(Len(pc[s][h].batch))
  /\ LET results == FlushResults(pc[s][h].batch, order)
         D == DeliverAll(DeliveryState, results)
     IN /\ returned' = CountReturned(returned, results)
        /\ IF D.ok
           THEN DrainRest(s, h, sttQueue, D, stateMap, sessionSeq)
           ELSE /\ pc' = [pc EXCEPT ![s][h] = At("failed")]
                /\ expectedSeq' = D.exp
                /\ pendingResults' = D.pend
                /\ delivered' = D.del
                /\ arrivals' = D.arr
                /\ UNCHANGED <<clientMap, bufferMap, stateMap, sessionSeq, sttQueue,
                               deliveryEnds, handed>>
  /\ UNCHANGED <<inflight, issued, speechSeen, started, epdSeen, issuedSeq>>
  /\ UNCHANGED ioVars
  /\ UNCHANGED restVars

\* a 100 ms timer of waitUntilPendingEmpty fires and finds nothing pending
WaitUntilPendingEmpty(s, h) ==
  /\ pc[s][h].at = "waitPending"
  /\ IF s \in DOMAIN pendingResults THEN DOMAIN pendingResults[s] = {} ELSE TRUE
  /\ Finish(s, h, sttQueue, DeliveryState, stateMap, sessionSeq)
  /\ UNCHANGED <<inflight, issued, speechSeen, started, epdSeen, issuedSeq, returned>>
  /\ UNCHANGED ioVars
  /\ UNCHANGED restVars

\* ----------------------------------------------------------- specification
Next ==
  \/ \E s \in Solo : TurnStart(s)
  \/ \E s \in DOMAIN stateMap, status \in StatusCodes : HandleEpdMessage(s, status)
  \/ \E s \in Sessions : LeadingSilence(s)
  \/ ProcessBatchSTT
  \/ \E batch \in inflight : \E order \in Outcomes(Len(batch)) :
       ProcessBatchResponse(batch, order)
  \/ \E s \in Sessions : TurnEnd(s, 1)
  \/ \E s \in Sessions, h \in Handlers, deadline \in BOOLEAN :
       AwaitNoMoreEpd(s, h, deadline)
  \/ \E s \in Sessions, h \in Handlers : \E order \in Outcomes(Len(pc[s][h].batch)) :
       FlushResponse(s, h, order)
  \/ \E s \in Sessions, h \in Handlers : WaitUntilPendingEmpty(s, h)

Spec == Init /\ [][Next]_vars

\* the timers of the service fire, the dispatcher ticks and every STT call
\* returns (with results or as a failure); clients and the EPD engine owe nothing
Fairness ==
  /\ WF_vars(ProcessBatchSTT)
  /\ WF_vars(\E batch \in inflight : \E order \in Outcomes(Len(batch)) :
               ProcessBatchResponse(batch, order))
  /\ \A s \in Sessions, h \in Handlers :
       /\ WF_vars(AwaitNoMoreEpd(s, h, TRUE))
       /\ WF_vars(\E order \in Outcomes(Len(pc[s][h].batch)) : FlushResponse(s, h, order))
       /\ WF_vars(WaitUntilPendingEmpty(s, h))

FairSpec == Spec /\ Fairness

\* one session with the client's audio path, the EPD socket, the client
\* socket and traffic for unknown session ids
NextIo ==
  \/ \E s \in Solo : TurnStart(s)
  \/ \E s \in Sessions, status \in StatusCodes :
       /\ s \in DOMAIN stateMap => stateMap[s].nChunks < IoChunks
       /\ HandleEpdMessage(s, status)
  \/ \E s \in Sessions : ProcessAudioBuffer(s)
  \/ OnWsOpen
  \/ OnWsClose
  \/ ClientDisconnect
  \/ ProcessBatchSTT
  \/ \E batch \in inflight : \E order \in Outcomes(Len(batch)) :
       ProcessBatchResponse(batch, order)
  \/ \E s \in Sessions : TurnEnd(s, 1)
  \/ \E s \in Sessions, h \in Handlers, deadline \in BOOLEAN :
       AwaitNoMoreEpd(s, h, deadline)
  \/ \E s \in Sessions, h \in Handlers : \E order \in Outcomes(Len(pc[s][h].batch)) :
       FlushResponse(s, h, order)
  \/ \E s \in Sessions, h \in Handlers : WaitUntilPendingEmpty(s, h)

SpecIo == Init /\ [][NextIo]_vars

\* one session streaming audio while the EPD socket opens and closes
NextSend ==
  \/ \E s \in Solo : TurnStart(s)
  \/ \E s \in DOMAIN bufferMap : bufferMap[s] < MaxSend /\ AudioChunk(s)
  \/ \E s \in DOMAIN stateMap, status \in StatusCodes :
       /\ stateMap[s].nChunks < SendChunks
       /\ HandleEpdMessage(s, status)
  \/ OnWsOpen
  \/ OnWsClose
  \/ ProcessBatchSTT
  \/ \E batch \in inflight : \E order \in Outcomes(Len(batch)) :
       ProcessBatchResponse(batch, order)
  \/ \E s \in Sessions : TurnEnd(s, 1)
  \/ \E s \in Sessions, h \in Handlers, deadline \in BOOLEAN :
       AwaitNoMoreEpd(s, h, deadline)
  \/ \E s \in Sessions, h \in Handlers : \E order \in Outcomes(Len(pc[s][h].batch)) :
       FlushResponse(s, h, order)
  \/ \E s \in Sessions, h \in Handlers : WaitUntilPendingEmpty(s, h)

SpecSend == Init /\ [][NextSend]_vars

\* the segmentation of one session on its own: EPD events of the statuses
\* that have a rule, and one without
FsmStatuses == {EPD_WAITING, EPD_SPEECH, EPD_PAUSE, EPD_END}
NextFsm ==
  \/ \E s \in Solo : TurnStart(s)
  \/ \E s \in DOMAIN stateMap, status \in FsmStatuses :
       /\ stateMap[s].nChunks < FsmChunks
       /\ EpdEvent(s, status)

SpecFsm == Init /\ [][NextFsm]_vars

\* two sessions side by side, each with a short run of EPD events
NextTwo ==
  \/ \E s \in Sessions : TurnStart(s)
  \/ \E s \in DOMAIN stateMap, status \in StatusCodes :
       /\ stateMap[s].nChunks < TwoChunks
       /\ HandleEpdMessage(s, status)
  \/ ProcessBatchSTT
  \/ \E batch \in inflight : \E order \in Outcomes(Len(batch)) :
       ProcessBatchResponse(batch, order)
  \/ \E s \in Sessions : TurnEnd(s, 1)
  \/ \E s \in Sessions, h \in Handlers, deadline \in BOOLEAN :
       AwaitNoMoreEpd(s, h, deadline)
  \/ \E s \in Sessions, h \in Handlers : \E order \in Outcomes(Len(pc[s][h].batch)) :
       FlushResponse(s, h, order)
  \/ \E s \in Sessions, h \in Handlers : WaitUntilPendingEmpty(s, h)

SpecTwo == Init /\ [][NextTwo]_vars

\* ---------------------------------------------------------- BufferManager
\* the buffer holds whole chunks: one element stands for chunkSize * 2 bytes,
\* byte offsets are multiples of it
BlockBytes == chunkSize * SampleBytes
ByteLength(buf) == Len(buf) * BlockBytes

\* Buffer.prototype.slice: a negative offset counts from the end, offsets are
\* clamped to [0, length], an end before the start gives an empty buffer
ClampOffset(off, len) ==
  IF off < 0 THEN (IF len + off < 0 THEN 0 ELSE len + off)
  ELSE IF off > len THEN len ELSE off
Slice(buf, startByte, endByte) ==
  LET a == ClampOffset(startByte, ByteLength(buf))
      b == ClampOffset(endByte, ByteLength(buf))
  IN IF b <= a THEN <<>> ELSE SubSeq(buf, (a \div BlockBytes) + 1, b \div BlockBytes)

\* append(chunk): the block is labelled with its position in the stream
BufferAppend ==
  /\ appended < MaxBlocks
  /\ buffer' = buffer \o <<appended>>
  /\ appended' = appended + 1
  /\ UNCHANGED <<baseChunk, readResult>>
  /\ UNCHANGED <<serviceVars, scenario, socketVars, wavInput, wavOutput>>

\* readRange(start, end): always returns a Buffer, never throws
ReadRange(start, end) ==
  /\ LET startByte == (start - baseChunk) * chunkSize * SampleBytes
         endByte == (end - baseChunk) * chunkSize * SampleBytes
     IN readResult' = [called |-> TRUE, start |-> start, end |-> end,
                       base |-> baseChunk, threw |-> FALSE,
                       data |-> Slice(buffer, startByte, endByte)]
  /\ UNCHANGED <<buffer, baseChunk, appended>>
  /\ UNCHANGED <<serviceVars, scenario, socketVars, wavInput, wavOutput>>

\* truncateUntil(chunk)
TruncateUntil(chunk) ==
  /\ LET byteOffset == (chunk - baseChunk) * chunkSize * SampleBytes
     IN buffer' = Slice(buffer, byteOffset, ByteLength(buffer))
  /\ baseChunk' = chunk
  /\ UNCHANGED <<appended, readResult>>
  /\ UNCHANGED <<serviceVars, scenario, socketVars, wavInput, wavOutput>>

\* reset()
Reset ==
  /\ buffer' = <<>>
  /\ baseChunk' = 0
  /\ UNCHANGED <<appended, readResult>>
  /\ UNCHANGED <<serviceVars, scenario, socketVars, wavInput, wavOutput>>

NextBuffer ==
  \/ BufferAppend
  \/ \E start \in 0..MaxBlocks, end \in 0..MaxBlocks : start <= end /\ ReadRange(start, end)
  \/ \E chunk \in 0..MaxBlocks : TruncateUntil(chunk)
  \/ Reset

SpecBuffer == Init /\ [][NextBuffer]_vars

\* -------------------------------------------------------- WebSocketService
\* the sockets that still hold a connection or a handshake to the EPD engine
Live == {i \in DOMAIN sockets : sockets[i] \in {"CONNECTING", "OPEN"}}

\* connect(): returns early only when this.ws is OPEN; otherwise a new
\* WebSocket with its own handlers replaces this.ws
Connect ==
  IF ws # 0 /\ sockets[ws] = "OPEN"
  THEN [sockets |-> sockets, ws |-> ws, isManualClose |-> isManualClose]
  ELSE [sockets |-> Append(sockets, "CONNECTING"), ws |-> Len(sockets) + 1,
        isManualClose |-> FALSE]

\* scheduleReconnect(): nothing while a timeout handle is kept
ScheduleReconnect == IF reconnectTimeout # "unset" THEN reconnectTimeout ELSE "armed"

\* connect() called by a user of the service (the SohriService constructor)
CallConnect ==
  /\ ~isManualClose
  /\ Len(Connect.sockets) <= MaxSockets
  /\ sockets' = Connect.sockets
  /\ ws' = Connect.ws
  /\ isManualClose' = Connect.isManualClose
  /\ UNCHANGED <<reconnectTimeout, heartbeatInterval>>
  /\ UNCHANGED <<serviceVars, scenario, bufferVars, wavInput, wavOutput>>

\* the reconnect timer fires: () => this.connect(); the handle is not cleared
ReconnectTimer ==
  /\ reconnectTimeout = "armed"
  /\ Len(Connect.sockets) <= MaxSockets
  /\ reconnectTimeout' = "stale"
  /\ sockets' = Connect.sockets
  /\ ws' = Connect.ws
  /\ isManualClose' = Connect.isManualClose
  /\ UNCHANGED heartbeatInterval
  /\ UNCHANGED <<serviceVars, scenario, bufferVars, wavInput, wavOutput>>

\* 'open' of socket i: startHeartbeat(), the reconnect timeout is cleared
SocketOpen(i) ==
  /\ i \in DOMAIN sockets
  /\ sockets[i] = "CONNECTING"
  /\ sockets' = [sockets EXCEPT ![i] = "OPEN"]
  /\ heartbeatInterval' = TRUE
  /\ reconnectTimeout' = "unset"
  /\ UNCHANGED <<ws, isManualClose>>
  /\ UNCHANGED <<serviceVars, scenario, bufferVars, wavInput, wavOutput>>

\* 'close' of socket i (failed handshake, lost or closed connection):
\* stopHeartbeat(), scheduleReconnect() unless isManualClose
SocketClose(i) ==
  /\ i \in DOMAIN sockets
  /\ sockets[i] \in {"CONNECTING", "OPEN", "CLOSING"}
  /\ sockets' = [sockets EXCEPT ![i] = "CLOSED"]
  /\ heartbeatInterval' = FALSE
  /\ reconnectTimeout' = IF isManualClose THEN reconnectTimeout ELSE ScheduleReconnect
  /\ UNCHANGED <<ws, isManualClose>>
  /\ UNCHANGED <<serviceVars, scenario, bufferVars, wavInput, wavOutput>>

\* onModuleDestroy(): clearTimeout cancels the timer and keeps the handle
OnModuleDestroy ==
  /\ ~isManualClose
  /\ isManualClose' = TRUE
  /\ heartbeatInterval' = FALSE
  /\ reconnectTimeout' = IF reconnectTimeout = "unset" THEN "unset" ELSE "stale"
  /\ sockets' = IF ws # 0 /\ sockets[ws] \in {"CONNECTING", "OPEN"}
                THEN [sockets EXCEPT ![ws] = "CLOSING"]
                ELSE sockets
  /\ UNCHANGED ws
  /\ UNCHANGED <<serviceVars, scenario, bufferVars, wavInput, wavOutput>>

NextSocket ==
  \/ CallConnect
  \/ ReconnectTimer
  \/ \E i \in 1..MaxSockets : SocketOpen(i)
  \/ \E i \in 1..MaxSockets : SocketClose(i)
  \/ OnModuleDestroy

SpecSocket == Init /\ [][NextSocket]_vars

\* ------------------------------------------------- AudioEncoderService
\* header.write('RIFF' | 'WAVE' | 'fmt ' | 'data'): the ASCII codes
RIFF == <<82, 73, 70, 70>>
WAVE == <<87, 65, 86, 69>>
FMT == <<102, 109, 116, 32>>
DATA == <<100, 97, 116, 97>>

\* the little-endian bytes of the integer part of numer / denom
LittleEndian(numer, denom, width) ==
  [i \in 1..width |-> ((numer \div denom) \div (256 ^ (i - 1))) % 256]

\* writeUInt16LE / writeUInt32LE of the number numer / denom: a RangeError
\* outside [0, 2^(8 width) - 1], else the integer part is stored; every
\* integer of the model is below 2^32 - 1, so only the sign can put a
\* 4-byte value out of range
WriteUInt(numer, denom, width) ==
  IF numer < 0 \/ (width = 2 /\ numer > denom * 65535)
  THEN [threw |-> TRUE, bytes |-> <<>>]
  ELSE [threw |-> FALSE, bytes |-> LittleEndian(numer, denom, width)]

\* mutant: the byte rate leaves out the channel count
ByteRateMono(sampleRate, channels, bitsPerSample) == sampleRate * bitsPerSample

\* eight times byteRate = (sampleRate * channels * bitsPerSample) / 8
ByteRateTimes8(sampleRate, channels, bitsPerSample) ==
  sampleRate * channels * bitsPerSample

\* the header fields are written in order; the first write out of range
\* throws, and the ones after it are not reached
pcmToWav(pcmBuffer, sampleRate, channels, bitsPerSample) ==
  LET dataSize == Len(pcmBuffer)
      fileSize == dataSize + headerSize - 8
      thrown == [called |-> TRUE, threw |-> TRUE, wav |-> <<>>]
      upToChannels ==
        RIFF \o WriteUInt(fileSize, 1, 4).bytes \o WAVE \o FMT
          \o WriteUInt(16, 1, 4).bytes \o WriteUInt(1, 1, 2).bytes
          \o WriteUInt(channels, 1, 2).bytes
  IN IF WriteUInt(channels, 1, 2).threw \/ WriteUInt(sampleRate, 1, 4).threw
     THEN thrown
     ELSE LET byteRate ==
                WriteUInt(ByteRateTimes8(sampleRate, channels, bitsPerSample), 8, 4)
              blockAlign == WriteUInt(channels * bitsPerSample, 8, 2)
              bits == WriteUInt(bitsPerSample, 1, 2)
          IN IF byteRate.threw \/ blockAlign.threw \/ bits.threw
             THEN thrown
             ELSE [called |-> TRUE, threw |-> FALSE,
                   wav |-> upToChannels \o WriteUInt(sampleRate, 1, 4).bytes
                             \o byteRate.bytes \o blockAlign.bytes \o bits.bytes
                             \o DATA \o WriteUInt(dataSize, 1, 4).bytes
                             \o pcmBuffer]

\* the arguments explored: short PCM buffers, usual and odd sample rates,
\* channel counts up to one that no longer fits its header field, bit depths
\* that are and are not whole bytes
PcmBytes == {0, 255}
PcmBuffers == UNION {[1..n -> PcmBytes] : n \in 0..MaxPcm}
SampleRates == {8000, 11025, 16000}
ChannelCounts == {1, 2, 65536}
BitDepths == {8, 12, 16}

InitWav ==
  /\ ServiceInit
  /\ scenario = "none"
  /\ BufferInit
  /\ SocketInit
  /\ wavInput \in [called : {TRUE}, pcmBuffer : PcmBuffers, sampleRate : SampleRates,
                    channels : ChannelCounts, bitsPerSample : BitDepths]
  /\ wavOutput = NoCall

PcmToWavCall ==
  /\ ~wavOutput.called
  /\ wavOutput' = pcmToWav(wavInput.pcmBuffer, wavInput.sampleRate,
                            wavInput.channels, wavInput.bitsPerSample)
  /\ UNCHANGED wavInput
  /\ UNCHANGED <<serviceVars, scenario, bufferVars, socketVars>>

NextWav == PcmToWavCall

SpecWav == InitWav /\ [][NextWav]_vars

\* the concrete scenarios: one session, one EPD event per chunk with the
\* statuses of the script, TURN_END after the last chunk, every STT call
\* answered with all its utterances in any order
W == EPD_WAITING
S == EPD_SPEECH
P == EPD_PAUSE
E == EPD_END
Script(name) ==
  CASE name = "pre-roll" -> <<W, W, W, S, S, S, S, S, S, S>>
    [] name = "short pause partial" -> <<S, S, S, S, S, S, P, P, P, S>>
    [] name = "two utterances" ->
         <<S, S, S, S, S, S, S, S, S, S, E, S, S, S, S, S, S, S, S, S, S, E>>
    [] OTHER -> <<>>
Scenarios == {"pre-roll", "short pause partial", "two utterances"}

Complete(k) == {o \in Outcomes(k) : Len(o) = k}

ScriptedEpd(s) ==
  /\ s \in DOMAIN stateMap
  /\ epdSeen[s] < Len(Script(scenario))
  /\ EpdEvent(s, Script(scenario)[epdSeen[s] + 1])

InitScenario ==
  /\ ServiceInit
  /\ scenario \in Scenarios
  /\ BufferInit
  /\ SocketInit
  /\ wavInput = NoCall
  /\ wavOutput = NoCall

NextScenario ==
  \/ \E s \in Solo : TurnStart(s)
  \/ \E s \in Solo : ScriptedEpd(s)
  \/ ProcessBatchSTT
  \/ \E batch \in inflight : \E order \in Complete(Len(batch)) :
       ProcessBatchResponse(batch, order)
  \/ \E s \in Solo : epdSeen[s] = Len(Script(scenario)) /\ TurnEnd(s, 1)
  \/ \E s \in Solo, h \in Handlers, deadline \in BOOLEAN :
       AwaitNoMoreEpd(s, h, deadline)
  \/ \E s \in Solo, h \in Handlers : \E order \in Complete(Len(pc[s][h].batch)) :
       FlushResponse(s, h, order)
  \/ \E s \in Solo, h \in Handlers : WaitUntilPendingEmpty(s, h)

SpecScenario == InitScenario /\ [][NextScenario]_vars

\* ------------------------------------------------------------ properties
SeqsOf(log) == [i \in DOMAIN log |-> log[i].seq]

\* the request of session s with sequence q is still queued or in flight
Outstanding(s, q) ==
  \/ \E i \in 1..Len(sttQueue) : sttQueue[i].sessionId = s /\ sttQueue[i].sequence = q
  \/ \E batch \in inflight : \E i \in 1..Len(batch) :
       batch[i].sessionId = s /\ batch[i].sequence = q
  \/ \E h \in Handlers : \E i \in 1..Len(pc[s][h].batch) :
       pc[s][h].batch[i].sequence = q

\* C1: the sequence numbers delivered to a session are strictly ascending,
\* and a result still pending lies above expected_seq and above everything
\* delivered so far, whatever the order of arrival.
C1_AscendingDelivery ==
  \A s \in Sessions :
    /\ \A i, j \in 1..Len(delivered[s]) :
         i < j => delivered[s][i].seq < delivered[s][j].seq
    /\ s \in DOMAIN pendingResults =>
         \A q \in DOMAIN pendingResults[s] :
           /\ q > expectedSeq[s]
           /\ \A i \in 1..Len(delivered[s]) : delivered[s][i].seq < q

\* results arrived as 1 then 0 and were delivered as 0 then 1
C1_Witness ==
  \E s \in Sessions : arrivals[s] = <<1, 0>> /\ SeqsOf(delivered[s]) = <<0, 1>>

\* C4: no sequence number of a session is delivered twice.
C4_NoDuplicateDelivery ==
  \A s \in Sessions :
    Cardinality({delivered[s][i].seq : i \in 1..Len(delivered[s])}) = Len(delivered[s])

\* a turn that ended after deliveries from dispatcher batches and the flush
C4_Witness ==
  \E s \in Sessions :
    /\ Len(delivered[s]) >= 3
    /\ pc[s][1].at = "done"
    /\ delivered[s][Len(delivered[s])].end = 1

\* C5: while the session exists, expected_seq never decreases, and it
\* advances by exactly the records emitted in that step, each carrying the
\* sequence expected_seq had when it was emitted; what is expected is never
\* left pending, so a missing sequence holds back everything above it.
C5_ExpectedSeqStep ==
  [][\A s \in Sessions :
       (s \in DOMAIN expectedSeq /\ s \in DOMAIN expectedSeq') =>
         LET k == expectedSeq'[s] - expectedSeq[s]
             n == Len(delivered[s])
         IN /\ k >= 0
            /\ Len(delivered'[s]) = n + k
            /\ SubSeq(delivered'[s], 1, n) = delivered[s]
            /\ \A i \in 1..k : delivered'[s][n + i].seq = expectedSeq[s] + i - 1
            /\ expectedSeq'[s] \notin DOMAIN pendingResults'[s]]_vars

\* sequence 1 is lost, sequence 2 waits behind it in an active session
C5_Witness ==
  \E s \in Sessions :
    /\ s \in DOMAIN expectedSeq
    /\ pc[s][1].at = "idle"
    /\ expectedSeq[s] = 1
    /\ 2 \in DOMAIN pendingResults[s]
    /\ ~Outstanding(s, 1)

\* C6: the delivered sequence numbers of a session are 0..k-1 and all of
\* them were issued by enqueueStt.
C6_DeliveredPrefixOfIssued ==
  \A s \in Sessions :
    /\ \A i \in 1..Len(delivered[s]) : delivered[s][i].seq = i - 1
    /\ Len(delivered[s]) <= Len(issued[s])

\* two delivered, a third issued and not delivered
C6_Witness ==
  \E s \in Sessions : Len(delivered[s]) = 2 /\ Len(issued[s]) = 3

\* C2: every TURN_END of a known session finishes its drain: deliveryEnd is
\* emitted and cleanupTurn runs, also with results pending above a hole.
C2_TurnEndDrains ==
  \A s \in Sessions :
    (pc[s][1].at = "awaitEpd") ~> (deliveryEnds[s] = 1 /\ s \notin DOMAIN stateMap)

\* three partials, sequence 0 delivered, sequence 1 lost, sequence 2 pending,
\* and the drain of the session waits for pending_results to empty
HoleScenario(s) ==
  /\ s \in DOMAIN expectedSeq
  /\ Len(issued[s]) >= 3
  /\ \A i \in 1..3 : issued[s][i].final = 0
  /\ SeqsOf(delivered[s]) = <<0>>
  /\ expectedSeq[s] = 1
  /\ 2 \in DOMAIN pendingResults[s]
  /\ ~Outstanding(s, 1)
  /\ pc[s][1].at = "waitPending"

\* C3: in the dropped-batch scenario the drain steps over the hole at
\* sequence 1, delivers sequence 2 and then emits deliveryEnd.
C3_HoleSkippedAfterDrain ==
  \A s \in Sessions :
    HoleScenario(s) ~>
      (/\ \E i \in 1..Len(delivered[s]) : delivered[s][i].seq = 2
       /\ deliveryEnds[s] = 1)

C8_FinalResetsFsm ==
  [][\A s \in Sessions :
       (/\ s \in DOMAIN stateMap'
        /\ Len(issued'[s]) = Len(issued[s]) + 1
        /\ issued'[s][Len(issued'[s])].final = 1) =>
         LET st == stateMap'[s]
         IN /\ st.start = st.nChunks /\ st.end = st.nChunks
            /\ st.lastChunk = st.nChunks
            /\ ~st.flag /\ ~st.recognized]_vars

\* C9: a session that has seen no EPD_SPEECH has enqueued nothing, and its
\* finished turn emitted exactly one deliveryEnd.
C9_NoSpeechNoWork ==
  \A s \in Sessions :
    ~speechSeen[s] =>
      /\ issued[s] = <<>>
      /\ pc[s][1].at = "done" => deliveryEnds[s] = 1

C11_ChunkClock ==
  \A s \in DOMAIN stateMap :
    /\ stateMap[s].nChunks = epdSeen[s]
    /\ (epdSeen[s] = 1 /\ stateMap[s].flag) => stateMap[s].lastChunk = 1

\* a final reset the FSM, a chunk was appended, another event came and the
\* drain is past its leftover check
C11_Witness ==
  \E s \in DOMAIN stateMap :
    /\ \E i \in 1..Len(issued[s]) : issued[s][i].final = 1
    /\ bufferMap[s] >= 1
    /\ pc[s][1].at \in {"flush", "waitPending"}
    /\ stateMap[s].nChunks = IoChunks
    /\ stateMap[s].start >= 2

\* C12: the k-th work item enqueued for a session carries sequence k - 1
\* (0, 1, 2, ... without gap or repeat), however the enqueues of the other
\* session interleave, and every queued request is the item issued under
\* its sequence.
C12_PerSessionSequence ==
  /\ \A s \in Sessions :
       /\ Len(issuedSeq[s]) = Len(issued[s])
       /\ \A k \in 1..Len(issuedSeq[s]) : issuedSeq[s][k] = k - 1
       /\ s \in DOMAIN sessionSeq => sessionSeq[s] = Len(issued[s])
  /\ \A i \in 1..Len(sttQueue) :
       LET r == sttQueue[i]
       IN /\ r.sequence < Len(issued[r.sessionId])
          /\ issued[r.sessionId][r.sequence + 1] =
               [start |-> r.start, end |-> r.end, final |-> r.final]

\* the first requests of both sessions left in one dispatcher batch, and
\* afterwards each session was given its sequence 1
C12_Witness ==
  /\ \A s \in Sessions : issuedSeq[s] = <<0, 1>>
  /\ \E batch \in inflight :
       Len(batch) = 2 /\ batch[1].sessionId # batch[2].sessionId

\* C13: every delivery record of session s with sequence q carries the
\* result for the utterance id of the work item issued under q, with that
\* item's is_final flag, also when results come back reordered or with
\* omissions, from the dispatcher or from the TURN_END flush.
C13_ResultMatchesItem ==
  \A s \in Sessions : \A i \in 1..Len(delivered[s]) :
    LET d == delivered[s][i]
    IN /\ d.seq < Len(issued[s])
       /\ d.result = <<s, issued[s][d.seq + 1].start, issued[s][d.seq + 1].end>>
       /\ d.end = issued[s][d.seq + 1].final

\* the sequences of log as a set
Range(log) == {log[i] : i \in 1..Len(log)}

\* C14: a work item is handed to sendBatchSpeechResponse at most once: a
\* step hands over only sequences never handed over before, nothing enters
\* the queue but a newly issued item (no re-queue, no retry), and the step
\* in which a dispatcher call returns, failed or not, leaves the sessions'
\* buffers, FSM states and sequence counters in place.
C14_HandedAtMostOnce ==
  [][/\ \A s \in Sessions :
          LET n == Len(handed[s])
              m == Len(handed'[s])
          IN /\ m >= n
             /\ SubSeq(handed'[s], 1, n) = handed[s]
             /\ \A i \in (n + 1)..m :
                  /\ handed'[s][i] \notin Range(handed[s])
                  /\ \A j \in (n + 1)..m : handed'[s][j] = handed'[s][i] => j = i
     /\ \A i \in 1..Len(sttQueue') :
          LET r == sttQueue'[i]
              s == r.sessionId
          IN /\ \/ \E j \in 1..Len(sttQueue) : sttQueue[j] = r
                \/ /\ Len(issuedSeq'[s]) = Len(issuedSeq[s]) + 1
                   /\ r.sequence = issuedSeq'[s][Len(issuedSeq'[s])]
             /\ r.sequence \notin Range(handed'[s])
     /\ inflight' \subseteq inflight /\ inflight' # inflight =>
          UNCHANGED <<bufferMap, stateMap, sessionSeq, sttQueue>>]_vars

\* the batch with sequence 0 failed: 0 was handed over, is nowhere any more
\* and never arrived; the session went on and its next item is queued
C14_Witness ==
  \E s \in DOMAIN stateMap :
    /\ handed[s] = <<0>>
    /\ ~Outstanding(s, 0)
    /\ arrivals[s] = <<>>
    /\ returned[s] = 0
    /\ \E i \in 1..Len(sttQueue) : sttQueue[i].sessionId = s /\ sttQueue[i].sequence = 1
    /\ stateMap[s].nChunks > issued[s][1].end

\* C15: no delivery record of a session follows its deliveryEnd;
\* deliveryEnd is emitted in the step that erases the session, while its
\* state still exists; and that step ends a TURN_END handler whose drain is
\* complete: nothing of the session is pending, everything that arrived was
\* delivered.
C15_DeliveryEndLast ==
  [][\A s \in Sessions :
       /\ deliveryEnds[s] >= 1 => delivered'[s] = delivered[s]
       /\ deliveryEnds'[s] # deliveryEnds[s] =>
            /\ deliveryEnds'[s] = deliveryEnds[s] + 1
            /\ s \in DOMAIN stateMap /\ s \notin DOMAIN stateMap'
       /\ (s \in DOMAIN stateMap /\ s \notin DOMAIN stateMap') =>
            /\ deliveryEnds'[s] = deliveryEnds[s] + 1
            /\ \E h \in Handlers :
                 /\ pc[s][h].at \in {"awaitEpd", "flush", "waitPending"}
                 /\ pc'[s][h].at = "done"
            /\ Range(arrivals'[s]) \subseteq Range(SeqsOf(delivered'[s]))
            /\ Len(arrivals'[s]) = Len(delivered'[s])]_vars

\* deliveryEnd went out after two records while a dispatcher batch with a
\* request of the session is still in flight
C15_Witness ==
  \E s \in Sessions :
    /\ deliveryEnds[s] = 1
    /\ Len(delivered[s]) = 2
    /\ \E batch \in inflight : \E i \in 1..Len(batch) : batch[i].sessionId = s

\* C16: the step in which the client disconnects starts the TURN_END drain
\* of every session the client owns, so that each is drained and cleaned up.
C16_DisconnectDrains ==
  [][(connected /\ ~connected') =>
       \A s \in DOMAIN stateMap : \E h \in Handlers : pc'[s][h].at # "idle"]_vars

\* C17: once cleanupTurn has run for a session, none of the maps holds an
\* entry for it and no request of it is left in the STT queue.
C17_CleanupErasesAll ==
  \A s \in started :
    s \notin DOMAIN stateMap =>
      /\ s \notin clientMap
      /\ s \notin DOMAIN bufferMap
      /\ s \notin DOMAIN sessionSeq
      /\ s \notin DOMAIN expectedSeq
      /\ s \notin DOMAIN pendingResults
      /\ \A i \in 1..Len(sttQueue) : sttQueue[i].sessionId # s

\* C18: a fault of one session does not keep the results of another
\* session from being delivered: every result the STT call returned for a
\* session that still exists was passed to its reassembler.
C18_NoCrossSessionLoss ==
  \A s \in DOMAIN pendingResults : returned[s] = Len(arrivals[s])

\* C19: a chunk or an EPD event for a session id that is in none of the
\* maps changes nothing of the service: no map entry, no queue entry, no
\* request in flight, no delivery, and no frame goes to the EPD engine.
C19_UnknownSessionDropped ==
  [][(strayChunks' # strayChunks \/ strayEpd' # strayEpd) =>
       UNCHANGED <<clientMap, bufferMap, stateMap, sessionSeq, expectedSeq,
                   pendingResults, sttQueue, inflight, pc, delivered, deliveryEnds,
                   issued, epdFrames>>]_vars

\* a chunk and an EPD event were dropped with the EPD socket open, after a
\* session that had sent audio was cleaned up
C19_Witness ==
  /\ strayChunks >= 1
  /\ strayEpd >= 1
  /\ wsOpen
  /\ \E s \in started : s \notin DOMAIN stateMap /\ epdFrames[s] >= 1

\* C20: every work item ever enqueued, partial or final, by the FSM or by
\* the TURN_END leftover, covers more than one chunk: end - start > 1; so
\* does every request queued, in flight or in a flush.
C20_NoDegenerateItem ==
  /\ \A s \in Sessions : \A i \in 1..Len(issued[s]) :
       issued[s][i].end - issued[s][i].start > 1
  /\ \A i \in 1..Len(sttQueue) : sttQueue[i].end - sttQueue[i].start > 1
  /\ \A batch \in inflight : \A i \in 1..Len(batch) : batch[i].end - batch[i].start > 1
  /\ \A s \in Sessions, h \in Handlers : \A i \in 1..Len(pc[s][h].batch) :
       pc[s][h].batch[i].end - pc[s][h].batch[i].start > 1

\* a two-chunk final was enqueued, and the EPD_PAUSE one chunk after the
\* reset was held back by the guard
C20_Witness ==
  \E s \in DOMAIN stateMap :
    /\ issued[s] = <<[start |-> 0, end |-> 2, final |-> 1]>>
    /\ stateMap[s].start = 2
    /\ stateMap[s].end = 3
    /\ ~stateMap[s].recognized

\* ------------------------------------------------- concrete scenarios
Partial(a, b) == [start |-> a, end |-> b, final |-> 0]
Final(a, b) == [start |-> a, end |-> b, final |-> 1]
\* the TURN_END handler has not yet run its leftover step
BeforeLeftover(s) == pc[s][1].at \in {"idle", "awaitEpd"}

\* C21: in the scenario 'pre-roll' (W,W,W,S,S,S,S,S,S,S, one EPD event per
\* chunk) the utterance opens at chunk 4 with start = 0 and lastChunk = 4, the
\* only work item enqueued before TURN_END is the partial [0,9) at chunk 9,
\* TURN_END at chunk 10 enqueues the leftover final [0,10) and the client is
\* delivered sequence 0 then sequence 1
C21_PreRollScenario ==
  scenario = "pre-roll" =>
    \A s \in Solo :
      /\ s \in DOMAIN stateMap =>
            /\ stateMap[s].flag <=> epdSeen[s] >= 4
            /\ epdSeen[s] = 4 => stateMap[s].start = 0 /\ stateMap[s].lastChunk = 4
            /\ epdSeen[s] >= 4 => stateMap[s].start = 0
      /\ BeforeLeftover(s) =>
            issued[s] = IF epdSeen[s] >= 9 THEN <<Partial(0, 9)>> ELSE <<>>
      /\ ~BeforeLeftover(s) =>
            /\ epdSeen[s] = 10
            /\ issued[s] = <<Partial(0, 9), Final(0, 10)>>
            /\ issuedSeq[s] = <<0, 1>>
      /\ SeqsOf(delivered[s]) \in {<<>>, <<0>>, <<0, 1>>}
      /\ pc[s][1].at = "done" =>
            /\ SeqsOf(delivered[s]) = <<0, 1>>
            /\ deliveryEnds[s] = 1
      /\ pc[s][1].at # "failed"

\* the turn of the scenario has ended and both sequences were delivered
C21_Witness ==
  /\ scenario = "pre-roll"
  /\ pc["s1"][1].at = "done"
  /\ SeqsOf(delivered["s1"]) = <<0, 1>>
  /\ issued["s1"] = <<Partial(0, 9), Final(0, 10)>>

\* C22 as stated: in the scenario 'short pause partial' (SPEECH x6, PAUSE) the
\* utterance has start = 2 and lastChunk = 6 at the 6th SPEECH with nothing
\* enqueued, and the PAUSE at nChunks = 7 enqueues exactly the partial [2,7)
C22_ShortPauseAsStated ==
  scenario = "short pause partial" =>
    \A s \in Solo :
      s \in DOMAIN stateMap /\ BeforeLeftover(s) =>
        /\ epdSeen[s] = 6 =>
              /\ stateMap[s].start = 2
              /\ stateMap[s].lastChunk = 6
              /\ issued[s] = <<>>
        /\ epdSeen[s] \in 7..9 =>
              /\ issued[s] = <<Partial(2, 7)>>
              /\ stateMap[s].recognized

\* C22: in the scenario 'short pause partial' (SPEECH x6, PAUSE x3, SPEECH) the
\* utterance opens at the 1st SPEECH with start = 0; the 6th SPEECH enqueues
\* the in-speech partial [0,6) and sets lastChunk = 6; the PAUSE at
\* nChunks = 7 enqueues exactly the partial [0,7) and sets recognized; the
\* following PAUSE events enqueue nothing, and the next SPEECH clears
\* recognized
C22_ShortPauseScenario ==
  scenario = "short pause partial" =>
    \A s \in Solo :
      s \in DOMAIN stateMap /\ BeforeLeftover(s) =>
        /\ epdSeen[s] \in 1..5 =>
              /\ stateMap[s].flag /\ stateMap[s].start = 0
              /\ stateMap[s].lastChunk = 1
              /\ issued[s] = <<>>
        /\ epdSeen[s] = 6 =>
              /\ stateMap[s].start = 0 /\ stateMap[s].lastChunk = 6
              /\ ~stateMap[s].recognized
              /\ issued[s] = <<Partial(0, 6)>>
        /\ epdSeen[s] \in 7..9 =>
              /\ stateMap[s].start = 0 /\ stateMap[s].lastChunk = 7
              /\ stateMap[s].recognized
              /\ issued[s] = <<Partial(0, 6), Partial(0, 7)>>
        /\ epdSeen[s] = 10 =>
              /\ ~stateMap[s].recognized
              /\ issued[s] = <<Partial(0, 6), Partial(0, 7)>>

\* the third PAUSE of the scenario has been handled
C22_Witness ==
  /\ scenario = "short pause partial"
  /\ "s1" \in DOMAIN stateMap
  /\ epdSeen["s1"] = 9
  /\ stateMap["s1"].recognized
  /\ issued["s1"] = <<Partial(0, 6), Partial(0, 7)>>

\* C23 as stated: in the scenario 'two utterances' (SPEECH x10, END,
\* SPEECH x10, END) exactly two work items are enqueued, both finals, the
\* first being [6,11), with sequences 0 and 1
C23_TwoFinalsAsStated ==
  scenario = "two utterances" =>
    \A s \in Solo :
      epdSeen[s] = 22 =>
        /\ Len(issued[s]) = 2
        /\ issued[s][1] = Final(6, 11)
        /\ issued[s][2].final = 1
        /\ issuedSeq[s] = <<0, 1>>

\* the work items of the scenario 'two utterances' and the number of them
\* enqueued after n EPD events
TwoUtterancesItems ==
  <<Partial(0, 6), Final(0, 11), Partial(8, 17), Final(8, 22)>>
TwoUtterancesCount(n) ==
  IF n >= 22 THEN 4 ELSE IF n >= 17 THEN 3 ELSE IF n >= 11 THEN 2
  ELSE IF n >= 6 THEN 1 ELSE 0

\* C23: in the scenario 'two utterances' (SPEECH x10, END, SPEECH x10, END)
\* exactly two finals are enqueued, [0,11) and [8,22), each after one
\* in-speech partial of its utterance ([0,6) and [8,17)); the four work items
\* carry the sequences 0..3, the finals 1 and 3; TURN_END adds no leftover and
\* what the client is delivered is the sequences 0, 1, 2, 3 in that order,
\* the finals second and fourth
C23_TwoFinalsScenario ==
  scenario = "two utterances" =>
    \A s \in Solo :
      /\ issued[s] = SubSeq(TwoUtterancesItems, 1, TwoUtterancesCount(epdSeen[s]))
      /\ issuedSeq[s] = [i \in 1..Len(issued[s]) |-> i - 1]
      /\ \E k \in 0..4 : SeqsOf(delivered[s]) = [i \in 1..k |-> i - 1]
      /\ \A i \in DOMAIN delivered[s] :
            delivered[s][i].end = TwoUtterancesItems[i].final
      /\ pc[s][1].at # "failed"

\* both utterances were closed by EPD_END and all four results delivered
C23_Witness ==
  /\ scenario = "two utterances"
  /\ issued["s1"] = TwoUtterancesItems
  /\ SeqsOf(delivered["s1"]) = <<0, 1, 2, 3>>

\* ---------------------------------------------------------- BufferManager
\* C24: baseChunk never decreases, whatever append, readRange, truncateUntil
\* and reset calls are made
C24_BaseChunkMonotone == [][baseChunk' >= baseChunk]_vars

\* C25: truncateUntil(c) with c <= baseChunk leaves baseChunk and the
\* buffered bytes as they are
C25_TruncateBelowBaseNoOp ==
  [][\A c \in 0..MaxBlocks :
       c <= baseChunk /\ TruncateUntil(c) =>
         baseChunk' = baseChunk /\ buffer' = buffer]_vars

\* C26: readRange(start, end) with start below baseChunk fails: it returns
\* no bytes to the caller
C26_ReadBelowBaseFails ==
  readResult.called /\ readResult.start < readResult.base => readResult.threw

\* -------------------------------------------------------- WebSocketService
\* C27: every close of an EPD socket without an explicit shutdown leaves a
\* reconnect timer pending, also the close that ends a failed reconnect
\* attempt; a close after the explicit shutdown leaves none
C27_CloseSchedulesReconnect ==
  [][\A i \in 1..MaxSockets :
       SocketClose(i) =>
         (reconnectTimeout' = "armed") = ~isManualClose]_vars

\* C28: however often and in whatever state connect() is called, at most one
\* socket holds a connection or a handshake to the EPD engine
C28_ConnectIdempotent == Cardinality(Live) <= 1

\* C29: a chunk of a live session that arrives while the EPD socket is not
\* open is appended to the buffer and not sent; nothing else changes (no
\* error path, the FSM state and nChunks as they were), the frame is not sent
\* later when the socket opens, and a later chunk that finds the socket open
\* is sent as usual
C29_SendOnClosedSocketSilent ==
  [][/\ \A s \in DOMAIN bufferMap :
          AudioChunk(s) =>
            /\ bufferMap'[s] = bufferMap[s] + 1
            /\ epdFrames'[s] = IF wsOpen THEN epdFrames[s] + 1 ELSE epdFrames[s]
            /\ stateMap' = stateMap /\ clientMap' = clientMap
            /\ sttQueue' = sttQueue /\ pc' = pc
     /\ OnWsOpen => epdFrames' = epdFrames]_vars

\* one chunk of the session was dropped on the closed socket, another one
\* was sent, and the FSM has not seen an EPD event for the dropped one
C29_Witness ==
  /\ "s1" \in DOMAIN bufferMap
  /\ bufferMap["s1"] = 2
  /\ epdFrames["s1"] = 1
  /\ wsOpen
  /\ stateMap["s1"].nChunks = 1

\* ------------------------------------------------- AudioEncoderService
\* parse of a RIFF header: the unsigned 32-bit little-endian field at offset
ReadUInt32LE(bytes, offset) ==
  bytes[offset + 1] + 256 * bytes[offset + 2] + 65536 * bytes[offset + 3]
    + 16777216 * bytes[offset + 4]
ByteRateOffset == 28
DataSizeOffset == 40

\* C30 as stated: for every PCM buffer and parameters pcmToWav returns a WAV
\* with a 44-byte header whose byte-rate field is exactly
\* sampleRate * channels * bitsPerSample / 8 and whose data length field is
\* the PCM length, followed by the PCM bytes
C30_WavHeaderAsStated ==
  wavOutput.called =>
    /\ ~wavOutput.threw
    /\ Len(wavOutput.wav) = 44 + Len(wavInput.pcmBuffer)
    /\ 8 * ReadUInt32LE(wavOutput.wav, ByteRateOffset) =
         wavInput.sampleRate * wavInput.channels * wavInput.bitsPerSample
    /\ ReadUInt32LE(wavOutput.wav, DataSizeOffset) = Len(wavInput.pcmBuffer)
    /\ SubSeq(wavOutput.wav, 45, Len(wavOutput.wav)) = wavInput.pcmBuffer

\* channels, bitsPerSample and the block alignment fit their 16-bit fields
FitsHeader(in) ==
  /\ in.channels <= 65535
  /\ in.bitsPerSample <= 65535
  /\ in.channels * in.bitsPerSample <= 8 * 65535

\* C30: pcmToWav throws exactly when a parameter does not fit its header
\* field; otherwise it returns a 44-byte header followed by the PCM bytes
\* unchanged, the data length field is the PCM length, and the byte-rate
\* field is the integer part of sampleRate * channels * bitsPerSample / 8,
\* which is that number itself whenever it is whole
C30_WavHeader ==
  wavOutput.called =>
    LET product == wavInput.sampleRate * wavInput.channels * wavInput.bitsPerSample
    IN /\ wavOutput.threw = ~FitsHeader(wavInput)
       /\ ~wavOutput.threw =>
            /\ Len(wavOutput.wav) = 44 + Len(wavInput.pcmBuffer)
            /\ ReadUInt32LE(wavOutput.wav, ByteRateOffset) = product \div 8
            /\ product % 8 = 0 =>
                  8 * ReadUInt32LE(wavOutput.wav, ByteRateOffset) = product
            /\ ReadUInt32LE(wavOutput.wav, DataSizeOffset) = Len(wavInput.pcmBuffer)
            /\ SubSeq(wavOutput.wav, 45, Len(wavOutput.wav)) = wavInput.pcmBuffer

\* a stereo 16-bit buffer has been converted
C30_Witness ==
  /\ wavOutput.called
  /\ ~wavOutput.threw
  /\ wavInput.sampleRate = 16000
  /\ wavInput.channels = 2
  /\ wavInput.bitsPerSample = 16
  /\ Len(wavInput.pcmBuffer) = 2
  /\ ReadUInt32LE(wavOutput.wav, ByteRateOffset) = 64000

\* ------------------------------------------------------- BatchDispatcher
\* C31: a dispatcher tick on a non-empty queue removes exactly the first
\* min(16, length) requests, leaves the others in their order and hands the
\* removed ones, ascending by sequence, to one sendBatchSpeechResponse call;
\* no STT call of the dispatcher starts while the queue is empty
C31_TickSendsHead ==
  [][/\ ProcessBatchSTT =>
          LET n == Min(BatchSize, Len(sttQueue))
              batch == SortBySeq(SubSeq(sttQueue, 1, n))
          IN /\ sttQueue' = SubSeq(sttQueue, n + 1, Len(sttQueue))
             /\ \A i \in 1..(n - 1) : batch[i].sequence <= batch[i + 1].sequence
             /\ inflight' = inflight \cup {batch}
     /\ sttQueue = <<>> => inflight' \subseteq inflight]_vars

\* the requests of session s in queue q, and the others, in queue order
QueuedOf(q, s) ==
  LET Mine(r) == r.sessionId = s
  IN SelectSeq(q, Mine)
QueuedOfOthers(q, s) ==
  LET NotMine(r) == r.sessionId # s
  IN SelectSeq(q, NotMine)

C33_OneBatchInFlight == Cardinality(inflight) <= 1

\* ------------------------------------------------------- SegmentationFSM
\* C34: an EPD_SPEECH event enqueues only when the utterance is already open
\* and nChunks - lastChunk >= STEP, and then sets lastChunk to nChunks;
\* lastChunk never decreases, so two enqueues by EPD_SPEECH in one utterance
\* are at least STEP events apart; no EPD event enqueues more than one item
C34_PartialsRateLimited ==
  [][\A s \in DOMAIN stateMap :
       /\ s \in DOMAIN stateMap' =>
            /\ Len(issued'[s]) <= Len(issued[s]) + 1
            /\ stateMap'[s].lastChunk >= stateMap[s].lastChunk
       /\ (EpdEvent(s, EPD_SPEECH) /\ issued'[s] # issued[s]) =>
            /\ stateMap[s].flag
            /\ stateMap'[s].nChunks - stateMap[s].lastChunk >= STEP
            /\ stateMap'[s].lastChunk = stateMap'[s].nChunks
            /\ issued'[s] =
                 Append(issued[s], [start |-> stateMap[s].start,
                                    end |-> stateMap'[s].nChunks, final |-> 0])]_vars

\* one utterance with two in-speech partials, five EPD events apart
C34_Witness ==
  /\ "s1" \in DOMAIN stateMap
  /\ stateMap["s1"].flag
  /\ \E i \in DOMAIN issued["s1"] :
       /\ i + 1 \in DOMAIN issued["s1"]
       /\ issued["s1"][i] = [start |-> 0, end |-> 6, final |-> 0]
       /\ issued["s1"][i + 1] = [start |-> 0, end |-> 11, final |-> 0]

\* C35: no dispatcher batch in flight holds a request of a session that
\* cleanupTurn has erased
C35_NoBatchInFlightAtCleanup ==
  \A batch \in inflight :
    \A i \in DOMAIN batch : batch[i].sessionId \in DOMAIN pendingResults

\* ------------------------------------------------ TURN_END sent twice
\* chunks of the turn whose TURN_END is repeated
RepeatChunks == 3

\* one session whose client sends TURN_END with its session id up to twice,
\* at any time after TURN_START
NextRepeat ==
  \/ \E s \in Solo : TurnStart(s)
  \/ \E s \in DOMAIN stateMap, status \in StatusCodes :
       /\ stateMap[s].nChunks < RepeatChunks
       /\ HandleEpdMessage(s, status)
  \/ ProcessBatchSTT
  \/ \E batch \in inflight : \E order \in Outcomes(Len(batch)) :
       ProcessBatchResponse(batch, order)
  \/ \E s \in Sessions, h \in Handlers : TurnEnd(s, h)
  \/ \E s \in Sessions, h \in Handlers, deadline \in BOOLEAN :
       AwaitNoMoreEpd(s, h, deadline)
  \/ \E s \in Sessions, h \in Handlers : \E order \in Outcomes(Len(pc[s][h].batch)) :
       FlushResponse(s, h, order)
  \/ \E s \in Sessions, h \in Handlers : WaitUntilPendingEmpty(s, h)

SpecRepeat == Init /\ [][NextRepeat]_vars

\* C36: TURN_END is safe to repeat: the TURN_END handlers of one session
\* enqueue at most one leftover final between them, emit at most one
\* deliveryEnd, and none of them ends with an error
C36_TurnEndRepeatable ==
  \A s \in Sessions :
     /\ leftovers[s] <= 1
     /\ deliveryEnds[s] <= 1
     /\ \A h \in Handlers : pc[s][h].at # "failed"

\* ------------------------------------- the EPD engine answering frames
\* chunks the client streams in the turn
EchoChunks == 3

\* one session; the EPD engine answers every frame it received, in order,
\* with one event, and the EPD socket opens and closes at any time
NextEcho ==
  \/ \E s \in Solo : TurnStart(s)
  \/ \E s \in DOMAIN bufferMap : bufferMap[s] < EchoChunks /\ AudioChunk(s)
  \/ \E s \in DOMAIN stateMap, status \in StatusCodes :
       /\ epdSeen[s] < epdFrames[s]
       /\ HandleEpdMessage(s, status)
  \/ OnWsOpen
  \/ OnWsClose
  \/ ProcessBatchSTT
  \/ \E batch \in inflight : \E order \in Outcomes(Len(batch)) :
       ProcessBatchResponse(batch, order)
  \/ \E s \in Sessions : TurnEnd(s, 1)
  \/ \E s \in Sessions, h \in Handlers, deadline \in BOOLEAN :
       AwaitNoMoreEpd(s, h, deadline)
  \/ \E s \in Sessions, h \in Handlers : \E order \in Outcomes(Len(pc[s][h].batch)) :
       FlushResponse(s, h, order)
  \/ \E s \in Sessions, h \in Handlers : WaitUntilPendingEmpty(s, h)

SpecEcho == Init /\ [][NextEcho]_vars

\* C37: the k-th EPD event of a session is about the k-th chunk of its
\* buffer: every frame sent to the engine has the number of the chunk just
\* appended, and every work item lies inside the buffered audio - also
\* after chunks were appended while the EPD socket was closed
C37_EventIsChunk ==
  [][\A s \in DOMAIN bufferMap \cap DOMAIN bufferMap' :
       /\ epdFrames'[s] # epdFrames[s] => epdFrames'[s] = bufferMap'[s]
       /\ \A i \in DOMAIN issued'[s] : issued'[s][i].end <= bufferMap'[s]]_vars

\* C38: no two work items of a session have the same (start, end), so the
\* utterance id "<session_id>_<start>-<end>" names one work item and one
\* sequence - the leftover final of TURN_END and the last partial included
C38_UtteranceIdUnique ==
  \A s \in Sessions : \A i, j \in DOMAIN issued[s] :
     (/\ issued[s][i].start = issued[s][j].start
      /\ issued[s][i].end = issued[s][j].end) => i = j

\* C39: utterances do not reach back into a closed one: every work item
\* enqueued after a final of the same session starts at or after the end
\* of that final, the 4-chunk pre-roll of the next EPD_SPEECH included
C39_NoReachBack ==
  \A s \in Sessions : \A i, j \in DOMAIN issued[s] :
     (i < j /\ issued[s][i].final = 1) => issued[s][j].start >= issued[s][i].end

\* C40: while flag is true, n_chunks - start >= 2 at every later EPD event,
\* so every EPD_END received with flag set enqueues exactly one final
\* [start, n_chunks) and resets the FSM: flag does not survive an EPD_END
C40_EndClosesUtterance ==
  [][\A s \in DOMAIN stateMap :
       /\ (stateMap[s].flag /\ \E status \in FsmStatuses : EpdEvent(s, status)) =>
            stateMap'[s].nChunks - stateMap[s].start >= 2
       /\ (stateMap[s].flag /\ EpdEvent(s, EPD_END)) =>
            /\ issued'[s] =
                 Append(issued[s], Final(stateMap[s].start, stateMap[s].nChunks + 1))
            /\ ~stateMap'[s].flag
            /\ stateMap'[s].start = stateMap'[s].nChunks
            /\ stateMap'[s].end = stateMap'[s].nChunks]_vars

\* the shortest utterance: opened by the first EPD event, closed by the second
C40_Witness ==
  \E s \in DOMAIN stateMap :
     /\ stateMap[s].nChunks = 2
     /\ ~stateMap[s].flag
     /\ issued[s] = <<Final(0, 2)>>
====
